---- MODULE Spec2Model ----
(***************************************************************************)
(* Model of the inbound-event pipeline of the Feishu bot:                  *)
(*   code/message.py        the dedup ledger (in-memory set + append log)  *)
(*   code/event_handler.py  do_p2_im_message_receive_v1                    *)
(* and of the weekly digest build:                                         *)
(*   code/doc_fetcher.py    get_weekly_report_data, parse_sheet_data,      *)
(*                          build_pictures_list, extract_img_keys          *)
(* Strings are sequences of one-character strings so that replace, strip   *)
(* and the substring test are computed, not assumed.                       *)
(***************************************************************************)
EXTENDS Integers, Sequences, FiniteSets, TLC

\* ------------------------------------------------------------------ bounds
MaxTextLen    == 2   \* longest message text, in characters
MaxMentions   == 2   \* longest mentions list of an event
MaxDeliveries == 2   \* events delivered over a run of Spec
MaxSpans      == 2   \* spans in one line of a rich-text message
MaxPages      == 2   \* pages of the list of chats
MaxRequests   == 3   \* page requests of one listing that are followed
MaxTargets    == 2   \* longest list of target chats a caller gives

\* --------------------------------------------------------------- constants
MAX_MESSAGE_AGE == 300
BOT_NAME        == <<"B">>
GROUP           == "group"
RECEIVE_V1      == "im.message.receive_v1"

Epoch == MAX_MESSAGE_AGE + 700
Clock == {Epoch, Epoch + 1}

\* ------------------------------------------------------------ text helpers
Whitespace == {" "}
Alphabet   == {" ", "@", "B", "h"}

RECURSIVE SeqsUpTo(_, _)
SeqsUpTo(S, n) ==
    IF n = 0 THEN {<<>>}
    ELSE LET shorter == SeqsUpTo(S, n - 1)
         IN  shorter \cup {Append(s, x) : s \in shorter, x \in S}

\* s[i..] starts with sub
StartsAt(s, sub, i) ==
    /\ i + Len(sub) - 1 <= Len(s)
    /\ \A j \in 1..Len(sub) : s[i + j - 1] = sub[j]

\* Python: sub in s
Contains(s, sub) == \E i \in 1..(Len(s) + 1) : StartsAt(s, sub, i)

IsPrefix(s, t) == Len(s) <= Len(t) /\ SubSeq(t, 1, Len(s)) = s

RECURSIVE LStrip(_)
LStrip(s) ==
    IF s # <<>> /\ Head(s) \in Whitespace THEN LStrip(Tail(s)) ELSE s

RECURSIVE RStrip(_)
RStrip(s) ==
    IF s # <<>> /\ s[Len(s)] \in Whitespace
    THEN RStrip(SubSeq(s, 1, Len(s) - 1)) ELSE s

\* Python: s.strip()
Strip(s) == RStrip(LStrip(s))

\* Python: s.replace(key, "") for a non-empty key: one left-to-right pass
\* over non-overlapping occurrences
RECURSIVE ReplaceFrom(_, _, _)
ReplaceFrom(s, key, i) ==
    IF i > Len(s) THEN <<>>
    ELSE IF StartsAt(s, key, i) THEN ReplaceFrom(s, key, i + Len(key))
    ELSE <<s[i]>> \o ReplaceFrom(s, key, i + 1)

Replace(s, key) == IF key = <<>> THEN s ELSE ReplaceFrom(s, key, 1)

\* ------------------------------------------------------------------ inputs
Ids       == {"m1", "m2"}
EmptyLine == ""
NoTime    == -1
NoText    == <<>>

Texts        == SeqsUpTo(Alphabet, MaxTextLen)
OTHER_NAME   == BOT_NAME \o <<"h">>   \* another member, named like the bot
MentionNames == {BOT_NAME, OTHER_NAME}
MentionKeys  == {<<>>, <<"@">>}
MentionSet   == [name : MentionNames, key : MentionKeys]
MentionLists == SeqsUpTo(MentionSet, MaxMentions)

\* message.content after json.loads: {"text": t}, a dict without "text"
\* (no content at all, or the rich text of kind "post" below), a JSON value
\* that is not a dict (a string, whose str() is t), or text that is not JSON
Contents ==
    [kind : {"text"}, text : Texts]
    \cup [kind : {"dict_no_text", "malformed"}, text : {NoText}]
    \cup [kind : {"non_dict"}, text : {<<" ">>, <<"B">>, <<"@">>}]

\* event.timestamp is in milliseconds, message.create_time is read as seconds
TimeFields ==
    [timestamp : {(Epoch - MAX_MESSAGE_AGE) * 1000 + 999},
     create_time : {NoTime, Epoch}]
    \cup [timestamp : {NoTime},
          create_time : {Epoch - MAX_MESSAGE_AGE + 1, NoTime}]

NormalEvents ==
    [shape : {"ok"}, event_type : {RECEIVE_V1}, message_id : Ids,
     chat_type : {GROUP, "p2p"}, time : TimeFields,
     content : Contents, mentions : MentionLists]

PlainEvent ==
    [shape |-> "ok", event_type |-> RECEIVE_V1, message_id |-> "m1",
     chat_type |-> GROUP, time |-> [timestamp |-> NoTime, create_time |-> Epoch],
     content |-> [kind |-> "text", text |-> <<"B">>], mentions |-> <<>>]

\* an event without a message, and an event of another type
OddEvents ==
    { [PlainEvent EXCEPT !.shape = "no_message"],
      [PlainEvent EXCEPT !.event_type = "im.chat.updated_v1"] }

\* a rich-text message: content is {"title": .., "content": lines}, each
\* line a list of spans tagged text, at (a mention) or img
TextSpan(t) == [tag |-> "text", text |-> t, image_key |-> NoText]
AtSpan      == [tag |-> "at", text |-> NoText, image_key |-> NoText]
ImgSpan     == [tag |-> "img", text |-> NoText, image_key |-> <<"k">>]
Spans       == {TextSpan(<<"h">>), AtSpan, ImgSpan}
RichLines   == SeqsUpTo(Spans, MaxSpans) \ {<<>>}
RichContents ==
    {[kind |-> "post", text |-> NoText, lines |-> <<l>>] : l \in RichLines}
    \cup {[kind |-> "post", text |-> NoText, lines |-> <<l1, l2>>] :
              l1 \in RichLines, l2 \in RichLines}

BOT_MENTION == [name |-> BOT_NAME, key |-> <<"@">>]

RichTextEvents ==
    {[PlainEvent EXCEPT !.content = c, !.mentions = m] :
        c \in RichContents, m \in {<<>>, <<BOT_MENTION>>}}

\* two mentions of which one key is the beginning of the other, as
\* "@_user_1" is of "@_user_10", in both orders
NESTED_MENTION == [name |-> OTHER_NAME, key |-> <<"@", "B">>]

NestedKeyEvents ==
    {[PlainEvent EXCEPT !.content = [kind |-> "text", text |-> t],
                        !.mentions = m] :
        t \in Texts,
        m \in {<<BOT_MENTION, NESTED_MENTION>>, <<NESTED_MENTION, BOT_MENTION>>}}

Events == NormalEvents \cup OddEvents

\* the events of the runs with several deliveries and restarts: every id,
\* chat type and time, with one content and mentions list for each path of
\* the handler
SessionContents ==
    [kind : {"text"}, text : {<<"B">>, <<" ">>, <<"@">>}]
    \cup [kind : {"malformed"}, text : {NoText}]

SessionMentions ==
    {<<>>, <<[name |-> BOT_NAME, key |-> <<"@">>]>>,
           <<[name |-> OTHER_NAME, key |-> <<"@">>]>>}

SessionEvents ==
    {ev \in NormalEvents : /\ ev.content \in SessionContents
                           /\ ev.mentions \in SessionMentions}
    \cup OddEvents

\* ------------------------------------------------------------------ ledger
\* load_processed_messages: the stripped non-empty lines among the first k
\* lines read; k < Len(lines) when reading raised part-way (the error is
\* caught and logged)
load_processed_messages(lines, k) ==
    {lines[i] : i \in {j \in 1..k : lines[j] # EmptyLine}}

NonEmptyLines(lines) == load_processed_messages(lines, Len(lines))

\* opening the log with "w": the file is rewritten with the one id
save_truncating(lines, message_id, append_ok) ==
    IF append_ok THEN <<message_id>> ELSE lines

\* save_processed_message: append one line; a failed append is caught
save_processed_message(lines, message_id, append_ok) ==
    IF append_ok THEN Append(lines, message_id) ELSE lines

\* the age test written with >=
is_message_valid_strict(pm, message_id, message_time, current_time) ==
    IF message_id \in pm THEN FALSE
    ELSE IF current_time - message_time >= MAX_MESSAGE_AGE THEN FALSE
    ELSE TRUE

\* is_message_valid: not seen before and not older than MAX_MESSAGE_AGE
is_message_valid(pm, message_id, message_time, current_time) ==
    IF message_id \in pm THEN FALSE
    ELSE IF current_time - message_time > MAX_MESSAGE_AGE THEN FALSE
    ELSE TRUE

\* only the log is written, the set is left alone
mark_log_only(pm, lines, message_id, append_ok) ==
    [pm    |-> pm,
     lines |-> save_processed_message(lines, message_id, append_ok)]

\* saving first, and a failed save escaping before the set is updated
mark_after_save(pm, lines, message_id, append_ok) ==
    [pm    |-> IF append_ok THEN pm \cup {message_id} ELSE pm,
     lines |-> save_processed_message(lines, message_id, append_ok)]

\* mark_message_processed: add to the set, then save
mark_message_processed(pm, lines, message_id, append_ok) ==
    [pm    |-> pm \cup {message_id},
     lines |-> save_processed_message(lines, message_id, append_ok)]

\* ----------------------------------------------------------------- handler
\* message_time: event.timestamp in ms, else message.create_time, else 0
message_time(ev) ==
    IF ev.time.timestamp # NoTime THEN ev.time.timestamp \div 1000
    ELSE IF ev.time.create_time # NoTime THEN ev.time.create_time
    ELSE 0

\* text_content = content.get("text", "") if isinstance(content, dict)
\*                else str(content)
text_content(ev) ==
    IF ev.content.kind \in {"dict_no_text", "post"} THEN NoText
    ELSE ev.content.text

\* "if" in place of "elif": the name in the text counts beside the mentions
bot_mentioned_either(ev) ==
    \/ \E i \in 1..Len(ev.mentions) : ev.mentions[i].name = BOT_NAME
    \/ Contains(text_content(ev), BOT_NAME)

\* the loop over message.mentions, or the BOT_NAME test when there are none
bot_mentioned(ev) ==
    IF ev.mentions # <<>>
    THEN \E i \in 1..Len(ev.mentions) : ev.mentions[i].name = BOT_NAME
    ELSE Contains(text_content(ev), BOT_NAME)

\* for mention in mentions: if mention.key:
\*     query_text = query_text.replace(mention.key, "").strip()
RECURSIVE remove_mentions(_, _)
remove_mentions(q, mentions) ==
    IF mentions = <<>> THEN q
    ELSE remove_mentions(
            IF Head(mentions).key # <<>>
            THEN Strip(Replace(q, Head(mentions).key)) ELSE q,
            Tail(mentions))

\* the mention keys are removed only from the "text" of a dict content and
\* only when there are mentions
query_text(ev) ==
    IF ev.content.kind = "text" /\ ev.mentions # <<>>
    THEN remove_mentions(text_content(ev), ev.mentions)
    ELSE text_content(ev)

\* ------------------------------------------------------------------ answer
\* Python: None, where a str is expected
PY_NONE == <<"None">>

\* Python: repr of a str without quotes or backslashes in it, or of None
py_repr(x) ==
    IF x = PY_NONE THEN <<"N", "o", "n", "e">> ELSE <<"'">> \o x \o <<"'">>

\* Python: f"{t}" of a tuple of two elements
tuple_str(a, b) ==
    <<"(">> \o py_repr(a) \o <<",", " ">> \o py_repr(b) \o <<")">>

\* what the model service does with one request: it answers with a text
\* and a response id, the request fails, or no client can be created
RESPONSE_ID == <<"r">>
Answers     == {<<"o", "k">>, <<"n", "o">>}
LlmOk       == [kind |-> "ok", answer |-> <<"o", "k">>]
LlmOutcomes ==
    [kind : {"ok"}, answer : Answers]
    \cup [kind : {"error", "raises"}, answer : {NoText}]

\* llm_request(user_input): (ai_content, response.id), or (None, None) when
\* the request raises inside its try; create_ark_client is outside the try
llm_request(user_input, llm) ==
    CASE llm.kind = "raises" ->
            [raised |-> TRUE, content |-> PY_NONE, id |-> PY_NONE]
      [] llm.kind = "error" ->
            [raised |-> FALSE, content |-> PY_NONE, id |-> PY_NONE]
      [] OTHER ->
            [raised |-> FALSE, content |-> llm.answer, id |-> RESPONSE_ID]

\* call_ai_model(query): messa = llm_request(query); return f"{messa}"
call_ai_model(query, llm) ==
    LET messa == llm_request(query, llm)
    IN  [raised |-> messa.raised, text |-> tuple_str(messa.content, messa.id)]

\* The path do_p2_im_message_receive_v1 takes, named by where it ends.
\* reply_message raises when the reply fails, json.loads on a malformed
\* content and call_ai_model when no client can be created: all three land
\* in the handler's except clause.
HandlerPath(ev, now, pm, token_ok, llm, reply_ok) ==
    IF ~token_ok THEN "token_error"
    ELSE IF ev.shape # "ok" THEN "invalid_event"
    ELSE IF ev.event_type # RECEIVE_V1 THEN "ignored_type"
    ELSE IF ~is_message_valid(pm, ev.message_id, message_time(ev), now)
         THEN (IF ev.message_id \in pm THEN "duplicate" ELSE "too_old")
    ELSE IF ev.chat_type # GROUP THEN "not_group"
    ELSE IF ev.content.kind = "malformed" THEN "content_error"
    ELSE IF ev.mentions = <<>> /\ ~Contains(text_content(ev), BOT_NAME)
         THEN "no_mention"
    ELSE IF ~bot_mentioned(ev) THEN "not_targeted"
    ELSE IF query_text(ev) = <<>> THEN "empty_query"
    ELSE IF call_ai_model(query_text(ev), llm).raised THEN "llm_raised"
    ELSE IF reply_ok THEN "replied"
    ELSE "reply_failed"

\* the non-group return without its mark_message_processed
MarkingPathsButNotGroup ==
    {"duplicate", "too_old", "no_mention", "not_targeted", "empty_query",
     "replied"}

\* the paths that end in mark_message_processed
MarkingPaths ==
    {"duplicate", "too_old", "not_group", "no_mention", "not_targeted",
     "empty_query", "replied"}

\* the rejections by a filter: every rejection but the duplicate
FilterPaths ==
    {"too_old", "not_group", "no_mention", "not_targeted", "empty_query"}

\* the paths that return before is_message_valid is called
EarlyPaths == {"token_error", "invalid_event", "ignored_type"}

\* the paths that call call_ai_model and then reply_message
AnsweringPaths == {"replied", "reply_failed"}

\* the statement at which a path raises, "" when it returns
RaisingStep(path) ==
    CASE path = "content_error" -> "json.loads"
      [] path = "llm_raised"    -> "call_ai_model"
      [] path = "reply_failed"  -> "reply_message"
      [] OTHER                  -> ""

\* the calls inside the try of the handler, lines 43-158
TrySteps ==
    {"get_tenant_access_token", "is_message_valid", "json.loads",
     "call_ai_model", "reply_message", "mark_message_processed"}

\* a try that ends before the reply
handler_catches_before_reply(step) == step \in TrySteps \ {"reply_message"}

\* except Exception as e: print(...), for what the try encloses
handler_catches(step) == step \in TrySteps

\* the calls of the collaborators one run of the handler makes, in order
handler_calls(path) ==
    CASE path = "token_error" -> <<"get_tenant_access_token">>
      [] path \in AnsweringPaths ->
            <<"get_tenant_access_token", "call_ai_model", "reply_message">>
      [] path = "llm_raised" ->
            <<"get_tenant_access_token", "call_ai_model">>
      [] OTHER -> <<"get_tenant_access_token">>

\* ================================================================== digest
\* code/doc_fetcher.py: get_weekly_report_data and what it calls.
\* A field value is a record tagged with its Python type:
\*   Str(s)        a str, s its characters
\*   TimeStr(f, a) a non-empty str that writes the instant a (seconds since
\*                 the epoch) in the layout f
\*   Num(k)        the number 1000 * k (int or float)
\*   Link(u, x)    a dict with the keys url and text
\*   Files(ts)     a list of dicts, each with the key file_token
\* Keys that are Chinese in the source are written in pinyin.

\* ------------------------------------------------------------------ bounds
MaxDescLen     == 3   \* longest description, in characters
MaxAttachments == 2   \* longest attachment list of an image field
MaxBuilds      == 2   \* digest builds over a run

\* --------------------------------------------------------------- constants
WEEKLY_REPORT_FILTER_DAYS == 7
DAY  == 86400
NOON == 43200

Str(s)        == [t |-> "str", v |-> s]
TimeStr(f, a) == [t |-> "str", form |-> f, at |-> a]
Num(k)        == [t |-> "num", kilo |-> k]
Link(u, x)    == [t |-> "dict", url |-> u, text |-> x]
Files(ts)     == [t |-> "list", items |-> ts]

Empty == Str(<<>>)

IsText(x) == x.t = "str" /\ "v" \in DOMAIN x

\* Python: bool(x)
Truthy(x) ==
    CASE x.t = "str"  -> (IF "v" \in DOMAIN x THEN x.v # <<>> ELSE TRUE)
      [] x.t = "num"  -> x.kilo # 0
      [] x.t = "dict" -> TRUE
      [] x.t = "list" -> x.items # <<>>

\* Python: fields.get(key, default)
Get(fields, key, default) ==
    IF key \in DOMAIN fields THEN fields[key] ELSE default

\* Python: s.replace(old, new) for a non-empty old
RECURSIVE str_replace_from(_, _, _, _)
str_replace_from(s, old, new, i) ==
    IF i > Len(s) THEN <<>>
    ELSE IF StartsAt(s, old, i)
         THEN new \o str_replace_from(s, old, new, i + Len(old))
         ELSE <<s[i]>> \o str_replace_from(s, old, new, i + 1)

str_replace(s, old, new) == str_replace_from(s, old, new, 1)

LF        == "\n"
BACKSLASH == "\\"
ESCAPED_N == <<BACKSLASH, "n">>
BR        == <<"<", "b", "r", ">">>

\* parse_sheet_data: what both branches do to desc
normalize_desc_swapped(desc) ==
    IF Truthy(desc)
    THEN Str(str_replace(str_replace(desc.v, <<LF>>, BR), ESCAPED_N, <<LF>>))
    ELSE desc

normalize_desc(desc) ==
    IF Truthy(desc)
    THEN Str(str_replace(str_replace(desc.v, ESCAPED_N, <<LF>>), <<LF>>, BR))
    ELSE desc

\* ------------------------------------------------------------ time field
TIME_FORMATS == <<"Y-m-d", "Y-m-d H:M:S", "Y/m/d", "Y/m/d H:M:S">>
T_FORMS      == {"Y-m-dTH:M:S", "Y/m/dTH:M:S"}
DATE_OF_T    == [f \in T_FORMS |->
                    IF f = "Y-m-dTH:M:S" THEN "Y-m-d" ELSE "Y/m/d"]

ValueError == -1   \* strptime or fromtimestamp raised
NoRecordTime == -2 \* record_time is None

Midnight(a) == (a \div DAY) * DAY

\* Python: 'T' in time_str
HasT(ts) == ts.form \in T_FORMS

\* Python: time_str.split('T')[0]
BeforeT(ts) == TimeStr(DATE_OF_T[ts.form], Midnight(ts.at))

\* Python: datetime.datetime.strptime(text, fmt)
strptime(ts, fmt) == IF ts.form = fmt THEN ts.at ELSE ValueError

\* the loop over time_formats, from format number i on
RECURSIVE try_formats(_, _)
try_formats(ts, i) ==
    IF i > Len(TIME_FORMATS) THEN NoRecordTime
    ELSE LET parsed == strptime(IF HasT(ts) THEN BeforeT(ts) ELSE ts,
                                TIME_FORMATS[i])
         IN  IF parsed # ValueError THEN parsed ELSE try_formats(ts, i + 1)

\* 1e12 and the largest timestamp datetime accepts (year 9999), in thousands
MS_THRESHOLD_KILO  == 1000000000
MAX_TIMESTAMP_KILO == 253402300

\* Python: datetime.datetime.fromtimestamp(timestamp) for timestamp 1000 * k
fromtimestamp_kilo(k) ==
    IF k > MAX_TIMESTAMP_KILO THEN ValueError ELSE 1000 * k

\* parse_sheet_data, lines 481-501: record_time of a truthy time field
record_time_of(time_str) ==
    CASE time_str.t = "str" ->
            IF IsText(time_str) THEN NoRecordTime  \* no layout fits
            ELSE try_formats(time_str, 1)
      [] time_str.t = "num" ->
            IF time_str.kilo > MS_THRESHOLD_KILO
            THEN time_str.kilo          \* timestamp / 1000, in seconds
            ELSE fromtimestamp_kilo(time_str.kilo)
      [] OTHER -> NoRecordTime

\* parse_sheet_data, lines 480-512: the record is skipped for its time
too_old(time_str, now) ==
    /\ Truthy(time_str)
    /\ LET record_time == record_time_of(time_str)
       IN  /\ record_time \notin {ValueError, NoRecordTime}
           /\ record_time < now - WEEKLY_REPORT_FILTER_DAYS * DAY

\* ---------------------------------------------------------- image resolver
IMG_PREFIX == <<"i", "m", "g", "_">>

\* Python: s.startswith("img_")
is_img_key(s) == IsPrefix(IMG_PREFIX, s)

\* an attachment dict of a list field; NO_TOKEN_ITEM has no file_token key
Attachment(token) == [file_token |-> token]
NO_TOKEN_ITEM     == [name |-> <<"x">>]

\* a file_token that is not a str (None, a number): it has no startswith
NOT_A_STR == <<"None">>

\* extract_img_keys, line 314: file_token.startswith raises AttributeError,
\* outside the try of lines 319-328
token_raises(img_item) ==
    "file_token" \in DOMAIN img_item /\ img_item.file_token = NOT_A_STR

\* what the platform does with a file token in one build
Outcomes == {"ok", "download_fails", "upload_fails"}

\* the image_key the upload returns for the content of a file token
uploaded_key(token) == IMG_PREFIX \o token

NoCoords == [bitable_token |-> FALSE, table_id |-> FALSE,
             record_id |-> Empty, field_name |-> ""]

NoResolution == [keys |-> <<>>, calls |-> <<>>, writes |-> <<>>]

get_image_key_never_raising(file_token, outcome) ==
    [raised |-> FALSE, calls |-> <<[op |-> "download", ref |-> file_token],
                                  [op |-> "upload", ref |-> file_token]>>]

\* a download that is tried a second time when it failed
get_image_key_retrying(file_token, outcome) ==
    CASE outcome[file_token] = "download_fails" ->
            [raised |-> TRUE,  calls |-> <<[op |-> "download", ref |-> file_token],
                                          [op |-> "download", ref |-> file_token]>>]
      [] outcome[file_token] = "upload_fails" ->
            [raised |-> TRUE,  calls |-> <<[op |-> "download", ref |-> file_token],
                                          [op |-> "upload", ref |-> file_token]>>]
      [] OTHER ->
            [raised |-> FALSE, calls |-> <<[op |-> "download", ref |-> file_token],
                                          [op |-> "upload", ref |-> file_token]>>]

\* get_image_key(token, file_token): the calls it makes and whether it
\* returns the key or raises
get_image_key(file_token, outcome) ==
    CASE outcome[file_token] = "download_fails" ->
            [raised |-> TRUE,  calls |-> <<[op |-> "download", ref |-> file_token]>>]
      [] outcome[file_token] = "upload_fails" ->
            [raised |-> TRUE,  calls |-> <<[op |-> "download", ref |-> file_token],
                                          [op |-> "upload", ref |-> file_token]>>]
      [] OTHER ->
            [raised |-> FALSE, calls |-> <<[op |-> "download", ref |-> file_token],
                                          [op |-> "upload", ref |-> file_token]>>]

\* extract_img_keys, lines 319-328 and 339-346: one reference that is not
\* already a key
resolve_reference_writing_first(ref, coords, outcome, update_ok) ==
    LET got     == get_image_key(ref, outcome)
        key     == uploaded_key(ref)
        writing == /\ coords.bitable_token /\ coords.table_id
                   /\ Truthy(coords.record_id) /\ coords.field_name # ""
        update  == [op |-> "update", ref |-> key,
                    record_id |-> coords.record_id,
                    field_name |-> coords.field_name]
    IN  [keys   |-> IF got.raised THEN <<>> ELSE <<key>>,
         calls  |-> IF writing THEN <<update>> \o got.calls ELSE got.calls,
         writes |-> IF writing /\ update_ok THEN <<update>> ELSE <<>>]

resolve_reference(ref, coords, outcome, update_ok) ==
    LET got     == get_image_key(ref, outcome)
        key     == uploaded_key(ref)
        writing == /\ coords.bitable_token /\ coords.table_id
                   /\ Truthy(coords.record_id) /\ coords.field_name # ""
        update  == [op |-> "update", ref |-> key,
                    record_id |-> coords.record_id,
                    field_name |-> coords.field_name]
    IN  IF got.raised
        THEN [keys |-> <<>>, calls |-> got.calls, writes |-> <<>>]
        ELSE [keys   |-> <<key>>,
              calls  |-> IF writing THEN got.calls \o <<update>> ELSE got.calls,
              writes |-> IF writing /\ update_ok THEN <<update>> ELSE <<>>]

extract_one_writing_keys(ref, coords, outcome, update_ok) ==
    IF is_img_key(ref)
    THEN [keys |-> <<ref>>,
          calls |-> <<[op |-> "update", ref |-> ref,
                       record_id |-> coords.record_id,
                       field_name |-> coords.field_name]>>,
          writes |-> <<>>]
    ELSE resolve_reference(ref, coords, outcome, update_ok)

\* one reference, a key or not
extract_one(ref, coords, outcome, update_ok) ==
    IF is_img_key(ref)
    THEN [keys |-> <<ref>>, calls |-> <<>>, writes |-> <<>>]
    ELSE resolve_reference(ref, coords, outcome, update_ok)

Join(a, b) == [keys   |-> a.keys \o b.keys,
               calls  |-> a.calls \o b.calls,
               writes |-> a.writes \o b.writes]

extract_items_first_only(items, i, coords, outcome, update_ok) ==
    IF i > Len(items) THEN NoResolution
    ELSE IF "file_token" \in DOMAIN items[i]
         THEN extract_one(items[i].file_token, coords, outcome, update_ok)
         ELSE NoResolution

\* extract_img_keys, lines 307-330: the items of a list field from item i on,
\* up to the end of the list or to the item at which the loop raises
RECURSIVE extract_items(_, _, _, _, _)
extract_items(items, i, coords, outcome, update_ok) ==
    IF i > Len(items) \/ token_raises(items[i]) THEN NoResolution
    ELSE Join(IF "file_token" \in DOMAIN items[i]
              THEN extract_one(items[i].file_token, coords, outcome, update_ok)
              ELSE NoResolution,
              extract_items(items, i + 1, coords, outcome, update_ok))

\* extract_img_keys raises: an item of a list field raises
extract_raises(img_field) ==
    /\ img_field.t = "list"
    /\ \E i \in 1..Len(img_field.items) : token_raises(img_field.items[i])

extract_img_keys(img_field, coords, outcome, update_ok) ==
    CASE img_field.t = "list" ->
            extract_items(img_field.items, 1, coords, outcome, update_ok)
      [] IsText(img_field) /\ Truthy(img_field) ->
            extract_one(img_field.v, coords, outcome, update_ok)
      [] OTHER -> NoResolution

\* build_pictures_list raises: extract_img_keys raises for one of the fields
pictures_raise(img_fields) ==
    \E i \in 1..Len(img_fields) : extract_raises(img_fields[i])

\* build_pictures_list: the fields from field number i on, up to the field
\* at which it raises; a picture is written as its img_key (i18n_img_key
\* repeats it); per_field keeps what each field gave
RECURSIVE build_pictures_from(_, _, _, _, _, _)
build_pictures_from(img_fields, i, coords, field_names, outcome, update_ok) ==
    IF i > Len(img_fields) THEN NoResolution @@ [per_field |-> <<>>]
    ELSE LET field_name == IF i <= Len(field_names)
                           THEN field_names[i] ELSE ""
             here == extract_img_keys(img_fields[i],
                                      [coords EXCEPT !.field_name = field_name],
                                      outcome, update_ok)
             rest == IF extract_raises(img_fields[i])
                     THEN NoResolution @@ [per_field |-> <<>>]
                     ELSE build_pictures_from(img_fields, i + 1, coords,
                                              field_names, outcome, update_ok)
         IN  Join(here, rest) @@ [per_field |-> <<here>> \o rest.per_field]

build_pictures_list(img_fields, coords, field_names, outcome, update_ok) ==
    build_pictures_from(img_fields, 1, coords, field_names, outcome, update_ok)

\* ------------------------------------------------------- record normalizer
EmptyUrl == [pc_url |-> <<>>, android_url |-> <<>>, ios_url |-> <<>>,
             url |-> <<>>]

\* the literal the text branch of the URL field treats as no link
PLACEHOLDER == <<"A", "I", "-", "z", "b">>

\* parse_sheet_data, lines 402-436: one spreadsheet row after the header
parse_row(row, outcome, update_ok) ==
    IF Len(row) < 5 THEN [kept |-> FALSE, raised |-> FALSE, why |-> "short"]
    ELSE LET name     == IF Truthy(row[1]) THEN row[1] ELSE Empty
             desc     == IF Truthy(row[2]) THEN row[2] ELSE Empty
             img_key1 == IF Truthy(row[3]) THEN row[3] ELSE Empty
             img_key2 == IF Truthy(row[4]) THEN row[4] ELSE Empty
             url      == IF Truthy(row[5]) THEN row[5] ELSE Empty
             pictures == build_pictures_list(<<img_key1, img_key2>>, NoCoords,
                                             <<>>, outcome, update_ok)
         IN  IF pictures_raise(<<img_key1, img_key2>>)
             THEN [kept |-> FALSE, raised |-> TRUE, why |-> "file_token",
                   calls |-> pictures.calls, writes |-> pictures.writes,
                   slots |-> pictures.per_field]
             ELSE IF Truthy(desc) /\ ~IsText(desc)
             THEN [kept |-> FALSE, raised |-> TRUE, why |-> "desc",
                   calls |-> pictures.calls, writes |-> pictures.writes,
                   slots |-> pictures.per_field]
             ELSE [kept |-> TRUE, raised |-> FALSE, why |-> "kept",
                   item |-> [name |-> name, desc |-> normalize_desc(desc),
                             pictures |-> pictures.keys,
                             url |-> [EmptyUrl EXCEPT !.url = url.v]],
                   calls |-> pictures.calls, writes |-> pictures.writes,
                   slots |-> pictures.per_field]

\* parse_sheet_data, lines 451-456: the aliases of the text fields
name_field(fields) ==
    Get(fields, "mingcheng", Get(fields, "name", Empty))

desc_field(fields) ==
    Get(fields, "miaoshu", Get(fields, "desc", Empty))

url_field_of(fields) ==
    Get(fields, "URL", Get(fields, "url",
        Get(fields, "lianjie", Get(fields, "link", Empty))))

time_field(fields) ==
    Get(fields, "Time", Get(fields, "time", Empty))

\* the text branch without its test for the placeholder
url_of_keeping_placeholder(url_field) ==
    IF url_field.t = "dict" THEN url_field.url
    ELSE IF Truthy(url_field) THEN url_field.v ELSE <<>>

\* parse_sheet_data, lines 459-474: url of the URL field (a dict or a text)
url_of(url_field) ==
    IF url_field.t = "dict" THEN url_field.url
    ELSE LET url_field_str == IF Truthy(url_field) THEN url_field.v ELSE <<>>
         IN  IF url_field_str = PLACEHOLDER THEN <<>> ELSE url_field_str

\* parse_sheet_data, lines 516-525: what slot 1 and slot 2 are resolved from
img_input1(fields) ==
    LET img_key1 == Get(fields, "image_key1", Empty)
    IN  IF Truthy(img_key1) THEN img_key1
        ELSE Get(fields, "image1", Get(fields, "tupian1",
             Get(fields, "image", Get(fields, "fujian",
             Get(fields, "attachment1", Empty)))))

img_input2(fields) ==
    LET img_key2 == Get(fields, "image_key2", Empty)
    IN  IF Truthy(img_key2) THEN img_key2
        ELSE Get(fields, "image2", Get(fields, "tupian2",
             Get(fields, "fujian2", Get(fields, "attachment2", Empty))))

IMAGE_KEY_FIELDS == <<"image_key1", "image_key2">>

\* parse_sheet_data, lines 442-558: one record of the table
parse_record(record, now, coords, outcome, update_ok) ==
    LET fields   == record.fields
        name     == name_field(fields)
        desc     == desc_field(fields)
        url      == url_of(url_field_of(fields))
        pictures == build_pictures_list(
                        <<img_input1(fields), img_input2(fields)>>,
                        [coords EXCEPT !.record_id = record.record_id],
                        IMAGE_KEY_FIELDS, outcome, update_ok)
    IN  IF ~Truthy(name)
        THEN [kept |-> FALSE, raised |-> FALSE, why |-> "no_name"]
        ELSE IF too_old(time_field(fields), now)
        THEN [kept |-> FALSE, raised |-> FALSE, why |-> "too_old"]
        ELSE IF pictures_raise(<<img_input1(fields), img_input2(fields)>>)
        THEN [kept |-> FALSE, raised |-> TRUE, why |-> "file_token",
              calls |-> pictures.calls, writes |-> pictures.writes,
              slots |-> pictures.per_field]
        ELSE IF Truthy(desc) /\ ~IsText(desc)
        THEN [kept |-> FALSE, raised |-> TRUE, why |-> "desc",
              calls |-> pictures.calls, writes |-> pictures.writes,
              slots |-> pictures.per_field]
        ELSE [kept |-> TRUE, raised |-> FALSE, why |-> "kept",
              item |-> [name |-> name, desc |-> normalize_desc(desc),
                        pictures |-> pictures.keys,
                        url |-> [pc_url |-> url, android_url |-> url,
                                 ios_url |-> url, url |-> url]],
              calls |-> pictures.calls, writes |-> pictures.writes,
              slots |-> pictures.per_field]

NoItems == [raised |-> FALSE, items |-> <<>>, calls |-> <<>>,
            writes |-> <<>>, parsed |-> <<>>]

\* the loop of either branch over the results of its rows or records: it
\* ends at the first one that raises
RECURSIVE collect(_, _)
collect(results, i) ==
    IF i > Len(results) THEN NoItems
    ELSE LET r == results[i]
         IN  IF r.raised
             THEN [NoItems EXCEPT !.raised = TRUE, !.calls = r.calls,
                                  !.writes = r.writes, !.parsed = <<r>>]
             ELSE LET rest == collect(results, i + 1)
                  IN  IF r.kept
                      THEN [raised |-> rest.raised,
                            items  |-> <<r.item>> \o rest.items,
                            calls  |-> r.calls \o rest.calls,
                            writes |-> r.writes \o rest.writes,
                            parsed |-> <<r>> \o rest.parsed]
                      ELSE [rest EXCEPT !.parsed = <<r>> \o @]

\* parse_sheet_data(sheet_data, token, bitable_token, table_id)
parse_sheet_data(sheet_data, now, coords, outcome, update_ok) ==
    CASE sheet_data.kind = "valueRange" ->
            collect([i \in 1..(Len(sheet_data.values) - 1) |->
                        parse_row(sheet_data.values[i + 1], outcome,
                                  update_ok)], 1)
      [] sheet_data.kind = "items" ->
            collect([i \in 1..Len(sheet_data.items) |->
                        parse_record(sheet_data.items[i], now, coords,
                                     outcome, update_ok)], 1)
      [] OTHER -> NoItems

\* ---------------------------------------------------- get_weekly_report_data
\* which of the five arguments are set (a token that is None or "" is unset)
Configs == [doc_token : BOOLEAN, spreadsheet_token : BOOLEAN,
            sheet_id : BOOLEAN, bitable_token : BOOLEAN, table_id : BOOLEAN]

NoReport == [status |-> "none", fetched |-> <<>>, items |-> <<>>,
             calls |-> <<>>, writes |-> <<>>, parsed |-> <<>>]

Raised(fetched) == [NoReport EXCEPT !.status = "raised", !.fetched = fetched]

\* the result of a source that was fetched and parsed
Parsed(source, p) ==
    [status  |-> IF p.raised THEN "raised" ELSE "returned",
     fetched |-> <<source>>,
     items   |-> IF p.raised THEN <<>> ELSE p.items,
     calls   |-> p.calls, writes |-> p.writes, parsed |-> p.parsed]

get_weekly_report_data_falling_back(cfg, remote, env) ==
    LET now       == env.now
        token_ok  == env.token_ok
        fetch_ok  == env.fetch_ok
        outcome   == env.outcome
        update_ok == env.update_ok
        table  == cfg.bitable_token /\ cfg.table_id
        sheet  == cfg.spreadsheet_token /\ cfg.sheet_id
        coords == [NoCoords EXCEPT !.bitable_token = TRUE, !.table_id = TRUE]
    IN  IF ~token_ok THEN Raised(<<>>)
        ELSE IF table /\ fetch_ok
        THEN Parsed("bitable", parse_sheet_data(remote.bitable, now, coords,
                                                outcome, update_ok))
        ELSE IF sheet
        THEN [Parsed("sheet", parse_sheet_data(remote.sheet, now, NoCoords,
                                               outcome, update_ok))
                EXCEPT !.fetched = IF table THEN <<"bitable", "sheet">>
                                   ELSE <<"sheet">>]
        ELSE IF cfg.doc_token
        THEN [NoReport EXCEPT !.status = "returned",
                              !.fetched = IF table THEN <<"bitable", "doc">>
                                          ELSE <<"doc">>]
        ELSE Raised(IF table THEN <<"bitable">> ELSE <<>>)

\* env: the clock and what the platform answers during this call
get_weekly_report_data(cfg, remote, env) ==
    LET now       == env.now
        token_ok  == env.token_ok
        fetch_ok  == env.fetch_ok
        outcome   == env.outcome
        update_ok == env.update_ok
        coords == [NoCoords EXCEPT !.bitable_token = TRUE, !.table_id = TRUE]
    IN  IF ~token_ok THEN Raised(<<>>)
        ELSE IF cfg.bitable_token /\ cfg.table_id
        THEN IF ~fetch_ok THEN Raised(<<"bitable">>)
             ELSE Parsed("bitable",
                         parse_sheet_data(remote.bitable, now, coords,
                                          outcome, update_ok))
        ELSE IF cfg.spreadsheet_token /\ cfg.sheet_id
        THEN IF ~fetch_ok THEN Raised(<<"sheet">>)
             ELSE Parsed("sheet",
                         parse_sheet_data(remote.sheet, now, NoCoords,
                                          outcome, update_ok))
        ELSE IF cfg.doc_token
        THEN IF ~fetch_ok THEN Raised(<<"doc">>)
             ELSE [NoReport EXCEPT !.status = "returned",
                                   !.fetched = <<"doc">>]
        ELSE Raised(<<>>)

\* update_bitable_record succeeded: the field of the record now holds the key
write_field(records, w) ==
    [i \in 1..Len(records) |->
        IF records[i].record_id = w.record_id
        THEN [records[i] EXCEPT
                !.fields = (w.field_name :> Str(w.ref)) @@ @]
        ELSE records[i]]

RECURSIVE write_fields(_, _, _)
write_fields(records, writes, i) ==
    IF i > Len(writes) THEN records
    ELSE write_fields(write_field(records, writes[i]), writes, i + 1)

\* ------------------------------------------------------------ digest inputs
\* the clock of a build: midnight and noon of one day, in seconds
NowMidnight == 20007 * DAY
NowNoon     == NowMidnight + NOON
DigestClock == {NowMidnight, NowNoon}

WINDOW == WEEKLY_REPORT_FILTER_DAYS * DAY

\* instants a time field may write: around the edge of the window, one day
\* beyond it, and the present
Instants ==
    {NowMidnight - WINDOW - DAY, NowMidnight - WINDOW - NOON,
     NowMidnight - WINDOW, NowNoon - WINDOW, NowMidnight - WINDOW + DAY,
     NowMidnight}

DATE_FORMS == {"Y-m-d", "Y/m/d"}
FORMS      == DATE_FORMS \cup {"Y-m-d H:M:S", "Y/m/d H:M:S"} \cup T_FORMS

\* an instant in milliseconds is 1000 * a, Num(a); in seconds it is
\* Num(a \div 1000), exact when a is a multiple of 1000
TimeValues ==
    {TimeStr(f, a) : f \in FORMS \ DATE_FORMS, a \in Instants}
    \cup {TimeStr(f, Midnight(a)) : f \in DATE_FORMS, a \in Instants}
    \cup {Num(a) : a \in Instants}
    \cup {Num(a \div 1000) : a \in {i \in Instants : i % 1000 = 0}}
    \cup {Num(0), Num(946684800), Str(<<"a">>), Empty, Files(<<>>),
          Files(<<NO_TOKEN_ITEM>>)}

A_NAME == Str(<<"A">>)
B_NAME == Str(<<"B">>)

DescAlphabet == {BACKSLASH, "n", LF, "a"}
Descs        == {Str(s) : s \in SeqsUpTo(DescAlphabet, MaxDescLen)}

Record(id, fields) == [record_id |-> id, fields |-> fields]
R1 == Str(<<"r">>)

\* a field that is absent, or present with one of the values
Opt(key, values) == {<<>>} \cup {key :> v : v \in values}

\* records that differ in which alias carries a text field
AliasRecords ==
    {Record(R1, n1 @@ n2 @@ d1 @@ d2 @@ u) :
        n1 \in Opt("mingcheng", {Empty, A_NAME}),
        n2 \in Opt("name", {Empty, A_NAME, B_NAME}),
        d1 \in Opt("miaoshu", {Empty, Str(<<"a">>)}),
        d2 \in Opt("desc", {Str(<<"a">>), Str(<<"n">>)}),
        u  \in {<<>>} \cup {k :> Str(<<"u">>) : k \in {"URL", "lianjie", "link"}}
                      \cup {("url" :> Str(<<"u">>)) @@ ("lianjie" :> Str(<<"v">>)),
                            "url" :> Link(<<"u">>, PLACEHOLDER),
                            "url" :> Link(<<"u">>, <<"x">>),
                            "link" :> Str(PLACEHOLDER)}}

\* records that differ in their description
DescRecords ==
    {Record(R1, ("mingcheng" :> A_NAME) @@ ("miaoshu" :> d)) :
        d \in Descs \cup {Files(<<NO_TOKEN_ITEM>>)}}

\* records that differ in their time field
TimeRecords ==
    {Record(R1, n @@ (k :> tv)) :
        n \in {"mingcheng" :> A_NAME, "name" :> Empty},
        k \in {"Time", "time"}, tv \in TimeValues}

HEADER == <<Str(<<"h">>)>>

\* spreadsheet rows of four or five cells
TextRows ==
    {<<n, d, Empty, Empty>> \o tail :
        n \in {Empty, A_NAME}, d \in Descs,
        tail \in {<<>>, <<Str(<<"u">>)>>}}

Table(records) == [kind |-> "items", items |-> records]
Sheet(rows)    == [kind |-> "valueRange", values |-> rows]

\* image references: two file tokens and a key the platform gave earlier
F1   == <<"f", "1">>
F2   == <<"f", "2">>
KEY  == IMG_PREFIX \o <<"k">>
Tokens == {F1, F2}
Refs   == Tokens \cup {KEY}

AllOk == [tk \in Tokens |-> "ok"]

AttachmentItems == {Attachment(r) : r \in Refs}

Slot1Values ==
    {Empty} \cup {Str(r) : r \in Refs}
            \cup {Files(a) : a \in SeqsUpTo(AttachmentItems, MaxAttachments)}

Slot2Values == {Str(F2), Str(KEY), Files(<<Attachment(F2)>>)}

\* records that differ in the inputs of their two image slots
SlotRecords ==
    {Record(R1, ("name" :> A_NAME) @@ ("image1" :> v1) @@ s2) :
        v1 \in Slot1Values, s2 \in Opt("tupian2", Slot2Values)}

\* records without an id, with image_key1 filled or empty, with an
\* attachment under another alias, with a list item that has no file_token
OtherImageRecords ==
    {Record(id, ("name" :> A_NAME) @@ k1 @@ s1) :
        id \in {Empty, R1},
        k1 \in Opt("image_key1", {Empty, Str(KEY)}),
        s1 \in {"image1" :> Str(F1), "fujian" :> Str(F1),
                "attachment1" :> Files(<<Attachment(F1)>>),
                "image1" :> Files(<<NO_TOKEN_ITEM, Attachment(F2)>>)}}

ImageRecords == SlotRecords \cup OtherImageRecords

ImageRows ==
    {<<A_NAME, Empty, c1, c2, Empty>> :
        c1 \in {Empty} \cup {Str(r) : r \in Refs},
        c2 \in {Empty, Str(F2), Str(KEY)}}

\* records of which one field has a value of another type than the code
\* expects: a description that is a list or a number, a file_token that is
\* not a str
MalformedRecords ==
    {Record(R1, ("mingcheng" :> A_NAME) @@ f) :
        f \in {"miaoshu" :> Files(<<NO_TOKEN_ITEM>>),
               "miaoshu" :> Num(1),
               "image1" :> Files(<<Attachment(NOT_A_STR)>>),
               "image1" :> Files(<<Attachment(F1), Attachment(NOT_A_STR)>>),
               "tupian2" :> Files(<<Attachment(NOT_A_STR)>>)}}

\* a record without a name, and one with nothing but its name
UnnamedAndPlainRecords ==
    {Record(R1, "name" :> Empty), Record(R1, "mingcheng" :> A_NAME)}

R2 == Str(<<"s">>)

GOOD_RECORD == Record(R2, ("name" :> B_NAME) @@ ("desc" :> Str(<<"a">>)))

\* tables of two records: a well-formed one before or after another one
MixedTables ==
    {<<r, GOOD_RECORD>> : r \in MalformedRecords \cup UnnamedAndPlainRecords}
    \cup {<<GOOD_RECORD, r>> : r \in MalformedRecords}

\* the contents the sources hold when nothing is said about them
PlainRemote ==
    [bitable |-> Table(<<Record(R1, "name" :> A_NAME)>>),
     sheet   |-> Sheet(<<HEADER, <<A_NAME, Empty, Empty, Empty, Empty>>>>)]

TableOnly == [doc_token |-> FALSE, spreadsheet_token |-> FALSE,
              sheet_id |-> FALSE, bitable_token |-> TRUE, table_id |-> TRUE]
SheetOnly == [doc_token |-> FALSE, spreadsheet_token |-> TRUE,
              sheet_id |-> TRUE, bitable_token |-> FALSE, table_id |-> FALSE]

\* =========================================================== weekly report
\* code/chat.py get_bot_chats and code/weekly_report.py
\* send_weekly_report_to_groups.
\* The page token of page i of the chat list is the number i.
NO_PAGE_TOKEN == 0   \* "": no page_token in the request or in the response

\* a chat of the list; its chat_id is "" when it is missing or empty
ChatItems == [chat_id : {"c1", "c2", ""}]
PageItems == {<<>>} \cup {<<c>> : c \in ChatItems}

\* the servers with n pages: every page but the last says has_more, with
\* the token of the next page or with none; the last says no more
ServersOf(n) ==
    {srv \in [1..n -> [items : PageItems, has_more : BOOLEAN,
                       page_token : 0..n]] :
        \A i \in 1..n :
            IF i < n
            THEN srv[i].has_more /\ srv[i].page_token \in {i + 1, NO_PAGE_TOKEN}
            ELSE ~srv[i].has_more /\ srv[i].page_token = NO_PAGE_TOKEN}

Servers == UNION {ServersOf(n) : n \in 1..MaxPages}

PlainServer ==
    <<[items |-> <<>>, has_more |-> FALSE, page_token |-> NO_PAGE_TOKEN]>>

NewListing == [state |-> "none", all_chats |-> <<>>,
               page_token |-> NO_PAGE_TOKEN, requests |-> <<>>]

\* get_bot_chats: one turn of its while loop; a request without page_token
\* is answered with the first page
get_bot_chats_turn(srv, listing, ok) ==
    LET page  == IF listing.page_token = NO_PAGE_TOKEN
                 THEN 1 ELSE listing.page_token
        data  == srv[page]
        asked == Append(listing.requests, page)
    IN  IF ~ok
        THEN [listing EXCEPT !.state = "raised", !.requests = asked]
        ELSE IF ~data.has_more
        THEN [listing EXCEPT !.state = "returned", !.requests = asked,
                             !.all_chats = @ \o data.items]
        ELSE [listing EXCEPT !.requests = asked,
                             !.all_chats = @ \o data.items,
                             !.page_token = data.page_token]

\* [chat["chat_id"] for chat in chats if chat.get("chat_id")]
RECURSIVE chat_ids(_)
chat_ids(chats) ==
    IF chats = <<>> THEN <<>>
    ELSE (IF Head(chats).chat_id # "" THEN <<Head(chats).chat_id>> ELSE <<>>)
         \o chat_ids(Tail(chats))

NoSends == [results |-> <<>>, sends |-> <<>>]

\* the entry of one chat: {"chat_id", "success": True, "result"} or
\* {"chat_id", "success": False, "error": str(e)}
SEND_ERROR == "send failed"
result_entry(chat_id, ok) ==
    [chat_id |-> chat_id, success |-> ok,
     error |-> IF ok THEN "" ELSE SEND_ERROR]

\* a loop that ends at the first chat the send fails for
RECURSIVE send_to_chats_stopping(_, _, _)
send_to_chats_stopping(targets, i, outcomes) ==
    IF i > Len(targets) THEN NoSends
    ELSE LET entry == result_entry(targets[i], outcomes[i])
             rest  == IF outcomes[i]
                      THEN send_to_chats_stopping(targets, i + 1, outcomes)
                      ELSE NoSends
         IN  [results |-> <<entry>> \o rest.results,
              sends   |-> <<targets[i]>> \o rest.sends]

\* send_weekly_report_to_groups, lines 81-122: the loop over the targets
\* from target i on; outcomes[i] says whether building the card and
\* send_message_to_chat go well for target i
RECURSIVE send_to_chats(_, _, _)
send_to_chats(targets, i, outcomes) ==
    IF i > Len(targets) THEN NoSends
    ELSE LET entry == result_entry(targets[i], outcomes[i])
             rest  == send_to_chats(targets, i + 1, outcomes)
         IN  [results |-> <<entry>> \o rest.results,
              sends   |-> <<targets[i]>> \o rest.sends]

\* the target lists a caller gives
TargetLists == SeqsUpTo({"c1", "c2"}, MaxTargets)

\* ------------------------------------------------------------------- state
VARIABLES
    processed_messages,  \* message.py: the in-memory set of this session
    log_file,            \* the lines of PROCESSED_MESSAGES_FILE
    phase,               \* "booted" | "idle" | "handled" | "crashed"
    boot_read,           \* lines read by load_processed_messages at startup
    boot_lines,          \* lines the log had at startup
    last,                \* the event handled last and what the handler did
    llm_calls,           \* per id: calls of call_ai_model in this session
    replies_sent,        \* per id: successful reply_message calls, session
    filtered,            \* per id: times a filter rejected it, this session
    unsaved,             \* ids marked in this session whose append failed
    deliveries,          \* events delivered so far
    config,              \* which arguments of get_weekly_report_data are set
    remote,              \* what the table and the spreadsheet hold
    report,              \* the last digest build: its result and its inputs
    resolved,            \* per image slot: the keys a build wrote back
    builds,              \* digest builds so far
    handlers,            \* per handler run in flight: where it is
    server,              \* the pages of the list of chats
    job                  \* the run of send_weekly_report_to_groups

event_vars == <<processed_messages, log_file, phase, boot_read, boot_lines,
                last, llm_calls, replies_sent, filtered, unsaved, deliveries>>

digest_vars == <<config, remote, report, resolved, builds>>

push_vars == <<server, job>>

vars == <<event_vars, digest_vars, handlers, push_vars>>

NoLast ==
    [ev |-> PlainEvent, now |-> 0, path |-> "none", query |-> NoText,
     seen_before |-> FALSE, log_before |-> <<>>, append_ok |-> FALSE,
     llm |-> LlmOk, reply |-> NoText, calls |-> <<>>, logged |-> FALSE]

\* a log left by earlier sessions: absent or empty, or with a blank line
InitialLogs == {<<>>, <<EmptyLine, "m1">>}

ZeroCount == [i \in Ids |-> 0]

\* the runs of the handler that may be in flight together
HandlerIds == {"h1", "h2"}

IdleHandler == [pc |-> "idle", ev |-> PlainEvent, path |-> "none"]

HandlersIdle == handlers = [h \in HandlerIds |-> IdleHandler]

\* send_weekly_report_to_groups has not been called
IdleJob ==
    [phase |-> "idle", given |-> FALSE, token_ok |-> TRUE, targets |-> <<>>,
     listing |-> NewListing, outcomes |-> <<>>, results |-> <<>>,
     sends |-> <<>>]

PushIdle == server = PlainServer /\ job = IdleJob

\* no digest build has run
NotResolved == [set |-> FALSE, keys |-> <<>>]

BuildNoReport ==
    NoReport @@ [now |-> 0, token_ok |-> TRUE, fetch_ok |-> TRUE,
                 outcome |-> AllOk, update_ok |-> TRUE,
                 before |-> PlainRemote,
                 cached |-> [i \in {1, 2} |-> NotResolved]]

DigestIdle ==
    /\ config = TableOnly
    /\ remote = PlainRemote
    /\ report = BuildNoReport
    /\ resolved = [i \in {1, 2} |-> NotResolved]
    /\ builds = 0

Init ==
    /\ DigestIdle
    /\ HandlersIdle
    /\ PushIdle
    /\ log_file \in InitialLogs
    /\ boot_read \in 0..Len(log_file)
    /\ boot_lines = Len(log_file)
    /\ processed_messages = load_processed_messages(log_file, boot_read)
    /\ phase = "booted"
    /\ last = NoLast
    /\ llm_calls = ZeroCount
    /\ replies_sent = ZeroCount
    /\ filtered = ZeroCount
    /\ unsaved = {}
    /\ deliveries = 0

\* do_p2_im_message_receive_v1(data), start to return
HandleEvent(ev, now, token_ok, llm, append_ok, reply_ok) ==
    LET path   == HandlerPath(ev, now, processed_messages, token_ok, llm,
                              reply_ok)
        marks  == path \in MarkingPaths
        marked == mark_message_processed(processed_messages, log_file,
                                         ev.message_id, append_ok)
        raises == RaisingStep(path) # ""
        caught == raises /\ handler_catches(RaisingStep(path))
    IN  /\ phase \in {"booted", "idle"}
        /\ deliveries' = deliveries + 1
        /\ phase' = IF raises /\ ~caught THEN "crashed" ELSE "handled"
        /\ processed_messages' = IF marks THEN marked.pm ELSE processed_messages
        /\ log_file' = IF marks THEN marked.lines ELSE log_file
        /\ llm_calls' =
              IF path \in AnsweringPaths \cup {"llm_raised"}
              THEN [llm_calls EXCEPT ![ev.message_id] = @ + 1] ELSE llm_calls
        /\ replies_sent' =
              IF path = "replied"
              THEN [replies_sent EXCEPT ![ev.message_id] = @ + 1]
              ELSE replies_sent
        /\ filtered' =
              IF path \in FilterPaths
              THEN [filtered EXCEPT ![ev.message_id] = @ + 1] ELSE filtered
        /\ unsaved' =
              IF marks /\ ~append_ok
              THEN unsaved \cup {ev.message_id} ELSE unsaved
        /\ last' = [ev |-> ev, now |-> now, path |-> path,
                    query |-> IF path \in AnsweringPaths
                              THEN query_text(ev) ELSE NoText,
                    seen_before |-> ev.message_id \in processed_messages,
                    log_before |-> log_file,
                    append_ok |-> marks /\ append_ok,
                    llm |-> llm,
                    reply |-> IF path \in AnsweringPaths
                              THEN call_ai_model(query_text(ev), llm).text
                              ELSE NoText,
                    calls |-> handler_calls(path),
                    logged |-> caught \/ path = "token_error"]
        /\ UNCHANGED <<boot_read, boot_lines, digest_vars, handlers,
                       push_vars>>

\* the handler has returned; the client waits for the next event
AwaitEvent ==
    /\ phase = "handled"
    /\ phase' = "idle"
    /\ last' = NoLast
    /\ UNCHANGED <<processed_messages, log_file, boot_read, boot_lines,
                   llm_calls, replies_sent, filtered, unsaved, deliveries,
                   digest_vars, handlers, push_vars>>

\* the process ends and starts again: message.py is imported afresh, the set
\* is empty and load_processed_messages reads the log
Restart(k) ==
    /\ phase = "idle"
    /\ phase' = "booted"
    /\ boot_read' = k
    /\ boot_lines' = Len(log_file)
    /\ processed_messages' = load_processed_messages(log_file, k)
    /\ llm_calls' = ZeroCount
    /\ replies_sent' = ZeroCount
    /\ filtered' = ZeroCount
    /\ unsaved' = {}
    /\ UNCHANGED <<log_file, last, deliveries, digest_vars, handlers,
                   push_vars>>

\* the token request fails whatever the event is: tried on a few events
TokenFailureEvents == OddEvents \cup {PlainEvent}

CanHandle(limit) == phase \in {"booted", "idle"} /\ deliveries < limit

\* sessions: up to MaxDeliveries deliveries, restarts in between
Next ==
    \/ /\ CanHandle(MaxDeliveries)
       /\ \E ev \in SessionEvents, now \in Clock,
             append_ok \in BOOLEAN, reply_ok \in BOOLEAN :
               HandleEvent(ev, now, TRUE, LlmOk, append_ok, reply_ok)
    \/ /\ CanHandle(MaxDeliveries)
       /\ \E ev \in TokenFailureEvents, now \in Clock :
               HandleEvent(ev, now, FALSE, LlmOk, TRUE, TRUE)
    \/ AwaitEvent
    \/ \E k \in 0..Len(log_file) : Restart(k)

Spec == Init /\ [][Next]_vars

\* admission: one delivery of any event to a freshly started process
AdmissionNext ==
    \/ /\ CanHandle(1)
       /\ \E ev \in Events, now \in Clock,
             append_ok \in BOOLEAN, reply_ok \in BOOLEAN :
               HandleEvent(ev, now, TRUE, LlmOk, append_ok, reply_ok)
    \/ /\ CanHandle(1)
       /\ \E ev \in TokenFailureEvents, now \in Clock :
               HandleEvent(ev, now, FALSE, LlmOk, TRUE, TRUE)
    \/ AwaitEvent

AdmissionSpec == Init /\ [][AdmissionNext]_vars

\* one delivery of a rich-text message, or of a text message with two
\* mentions whose keys overlap
ContentNext ==
    \/ /\ CanHandle(1)
       /\ \E ev \in RichTextEvents \cup NestedKeyEvents, now \in Clock,
             append_ok \in BOOLEAN, reply_ok \in BOOLEAN :
               HandleEvent(ev, now, TRUE, LlmOk, append_ok, reply_ok)
    \/ AwaitEvent

ContentSpec == Init /\ [][ContentNext]_vars

\* answering: deliveries of fresh group events under every outcome of the
\* token request, the model service, the reply and the log append
AnswerEvents ==
    {ev \in SessionEvents :
        /\ ev.shape = "ok" => ev.chat_type = GROUP
        /\ ev.shape = "ok" =>
              ev.time = [timestamp |-> NoTime,
                         create_time |-> Epoch - MAX_MESSAGE_AGE + 1]}

AnswerNext ==
    \/ /\ CanHandle(MaxDeliveries)
       /\ \E ev \in AnswerEvents, token_ok \in BOOLEAN, llm \in LlmOutcomes,
             append_ok \in BOOLEAN, reply_ok \in BOOLEAN :
               HandleEvent(ev, Epoch, token_ok, llm, append_ok, reply_ok)
    \/ AwaitEvent

AnswerSpec == Init /\ [][AnswerNext]_vars

\* ------------------------------------------------------------ digest builds
Uploads(calls) == {j \in 1..Len(calls) : calls[j].op = "upload"}

\* a build of the table resolved slot i of the first record from its
\* attachment field and every key it resolved was written back
ResolvesAndWrites(r, record, i) ==
    /\ r.status = "returned"
    /\ r.fetched = <<"bitable">>
    /\ r.parsed[1].kept
    /\ ~Truthy(Get(record.fields, IMAGE_KEY_FIELDS[i], Empty))
    /\ LET slot == r.parsed[1].slots[i]
       IN  /\ slot.writes # <<>>
           /\ Len(slot.writes) = Len(slot.keys)
           /\ Len(slot.writes) = Cardinality(Uploads(slot.calls))

\* card.py get_card_data calls get_weekly_report_data; the platform then
\* holds what update_bitable_record wrote
BuildDigest(now, token_ok, fetch_ok, outcome, update_ok) ==
    LET env    == [now |-> now, token_ok |-> token_ok, fetch_ok |-> fetch_ok,
                   outcome |-> outcome, update_ok |-> update_ok]
        r      == get_weekly_report_data(config, remote, env)
        record == remote.bitable.items[1]
    IN  /\ builds < MaxBuilds
        /\ builds' = builds + 1
        /\ report' = r @@ env @@ [before |-> remote, cached |-> resolved]
        /\ remote' = [remote EXCEPT
                        !.bitable.items = write_fields(@, r.writes, 1)]
        /\ resolved' =
              [i \in {1, 2} |->
                  IF ResolvesAndWrites(r, record, i)
                  THEN [set |-> TRUE, keys |-> r.parsed[1].slots[i].keys]
                  ELSE resolved[i]]
        /\ UNCHANGED <<config, event_vars, handlers, push_vars>>

EventsIdle ==
    /\ log_file = <<>>
    /\ boot_read = 0
    /\ boot_lines = 0
    /\ processed_messages = load_processed_messages(log_file, boot_read)
    /\ phase = "booted"
    /\ last = NoLast
    /\ llm_calls = ZeroCount
    /\ replies_sent = ZeroCount
    /\ filtered = ZeroCount
    /\ unsaved = {}
    /\ deliveries = 0

DigestStart ==
    /\ EventsIdle
    /\ HandlersIdle
    /\ PushIdle
    /\ report = BuildNoReport
    /\ resolved = [i \in {1, 2} |-> NotResolved]
    /\ builds = 0

\* the token request or the fetch of the source fails
FailingBuild ==
    \E token_ok \in BOOLEAN, fetch_ok \in BOOLEAN :
        /\ ~(token_ok /\ fetch_ok)
        /\ BuildDigest(NowNoon, token_ok, fetch_ok, AllOk, TRUE)

\* source selection: any configuration over plain contents
SelectionInit ==
    /\ DigestStart
    /\ config \in Configs
    /\ remote = PlainRemote

SelectionNext ==
    \/ \E now \in DigestClock : BuildDigest(now, TRUE, TRUE, AllOk, TRUE)
    \/ FailingBuild

SelectionSpec == SelectionInit /\ [][SelectionNext]_vars

\* normalization of the text fields of one record or row
NormalizeInit ==
    /\ DigestStart
    /\ \/ /\ config = TableOnly
          /\ \/ \E rec \in AliasRecords \cup DescRecords \cup TimeRecords :
                   remote = [PlainRemote EXCEPT !.bitable = Table(<<rec>>)]
             \/ \E recs \in MixedTables :
                   remote = [PlainRemote EXCEPT !.bitable = Table(recs)]
       \/ /\ config = SheetOnly
          /\ \E row \in TextRows :
                remote = [PlainRemote EXCEPT !.sheet = Sheet(<<HEADER, row>>)]

NormalizeNext ==
    \/ \E now \in DigestClock : BuildDigest(now, TRUE, TRUE, AllOk, TRUE)
    \/ FailingBuild

NormalizeSpec == NormalizeInit /\ [][NormalizeNext]_vars

\* image resolution of one record or row over several builds
ImageInit ==
    /\ DigestStart
    /\ \/ /\ config = TableOnly
          /\ \E rec \in ImageRecords :
                remote = [PlainRemote EXCEPT !.bitable = Table(<<rec>>)]
       \/ /\ config = SheetOnly
          /\ \E row \in ImageRows :
                remote = [PlainRemote EXCEPT !.sheet = Sheet(<<HEADER, row>>)]

ImageNext ==
    \/ \E outcome \in [Tokens -> Outcomes], update_ok \in BOOLEAN :
          BuildDigest(NowNoon, TRUE, TRUE, outcome, update_ok)
    \/ FailingBuild

ImageSpec == ImageInit /\ [][ImageNext]_vars

\* ------------------------------------------------- handlers run together
\* do_p2_im_message_receive_v1 from its start to the end of its checks
\* (lines 43-139): is_message_valid reads the set as it is at this moment
BeginHandling(h, ev, now, reply_ok) ==
    LET path == HandlerPath(ev, now, processed_messages, TRUE, LlmOk, reply_ok)
    IN  /\ handlers[h].pc = "idle"
        /\ deliveries < MaxDeliveries
        /\ deliveries' = deliveries + 1
        /\ handlers' =
              [handlers EXCEPT ![h] =
                  [pc |-> IF path \in AnsweringPaths THEN "answering"
                          ELSE IF path \in MarkingPaths THEN "marking"
                          ELSE "done",
                   ev |-> ev, path |-> path]]
        /\ filtered' =
              IF path \in FilterPaths
              THEN [filtered EXCEPT ![ev.message_id] = @ + 1] ELSE filtered
        /\ UNCHANGED <<processed_messages, log_file, phase, boot_read,
                       boot_lines, last, llm_calls, replies_sent, unsaved,
                       digest_vars, push_vars>>

\* lines 143-152: call_ai_model, then reply_message
AnswerAndReply(h) ==
    LET id == handlers[h].ev.message_id
    IN  /\ handlers[h].pc = "answering"
        /\ llm_calls' = [llm_calls EXCEPT ![id] = @ + 1]
        /\ replies_sent' =
              IF handlers[h].path = "replied"
              THEN [replies_sent EXCEPT ![id] = @ + 1] ELSE replies_sent
        /\ handlers' =
              [handlers EXCEPT ![h].pc =
                  IF handlers[h].path = "replied" THEN "marking" ELSE "done"]
        /\ UNCHANGED <<processed_messages, log_file, phase, boot_read,
                       boot_lines, last, filtered, unsaved, deliveries,
                       digest_vars, push_vars>>

\* mark_message_processed(message.message_id), and the handler returns
MarkProcessed(h, append_ok) ==
    LET id     == handlers[h].ev.message_id
        marked == mark_message_processed(processed_messages, log_file, id,
                                         append_ok)
    IN  /\ handlers[h].pc = "marking"
        /\ processed_messages' = marked.pm
        /\ log_file' = marked.lines
        /\ unsaved' = IF append_ok THEN unsaved ELSE unsaved \cup {id}
        /\ handlers' = [handlers EXCEPT ![h].pc = "done"]
        /\ UNCHANGED <<phase, boot_read, boot_lines, last, llm_calls,
                       replies_sent, filtered, deliveries, digest_vars,
                       push_vars>>

ConcurrentNext ==
    \/ \E h \in HandlerIds, ev \in AnswerEvents, reply_ok \in BOOLEAN :
          BeginHandling(h, ev, Epoch, reply_ok)
    \/ \E h \in HandlerIds : AnswerAndReply(h)
    \/ \E h \in HandlerIds, append_ok \in BOOLEAN : MarkProcessed(h, append_ok)

ConcurrentSpec == Init /\ [][ConcurrentNext]_vars

\* ------------------------------------------------------ weekly report push
\* send_weekly_report_to_groups, lines 66-79: the token, then the targets
StartReport(given, targets, token_ok) ==
    /\ job.phase = "idle"
    /\ job' =
          IF ~token_ok
          THEN [IdleJob EXCEPT !.phase = "raised", !.given = given,
                               !.token_ok = FALSE]
          ELSE IF given
          THEN [IdleJob EXCEPT !.phase = "sending", !.given = TRUE,
                               !.targets = targets]
          ELSE [IdleJob EXCEPT !.phase = "listing",
                               !.listing.state = "running"]
    /\ UNCHANGED <<server, event_vars, digest_vars, handlers>>

\* one turn of the loop of get_bot_chats; when it returns the targets are
\* the chat ids of the list, when it raises the whole call raises
RequestPage(ok) ==
    LET l == get_bot_chats_turn(server, job.listing, ok)
    IN  /\ job.phase = "listing"
        /\ Len(job.listing.requests) < MaxRequests
        /\ job' =
              CASE l.state = "raised" ->
                      [job EXCEPT !.phase = "raised", !.listing = l]
                [] l.state = "returned" ->
                      [job EXCEPT !.phase = "sending", !.listing = l,
                                  !.targets = chat_ids(l.all_chats)]
                [] OTHER -> [job EXCEPT !.listing = l]
        /\ UNCHANGED <<server, event_vars, digest_vars, handlers>>

\* lines 81-125: the loop over the targets, and the return of the results
SendReports(outcomes) ==
    LET r == send_to_chats(job.targets, 1, outcomes)
    IN  /\ job.phase = "sending"
        /\ job' = [job EXCEPT !.phase = "returned", !.outcomes = outcomes,
                              !.results = r.results, !.sends = r.sends]
        /\ UNCHANGED <<server, event_vars, digest_vars, handlers>>

PushInit ==
    /\ EventsIdle
    /\ DigestIdle
    /\ HandlersIdle
    /\ server \in Servers
    /\ job = IdleJob

PushNext ==
    \/ \E token_ok \in BOOLEAN : StartReport(FALSE, <<>>, token_ok)
    \/ \E targets \in TargetLists, token_ok \in BOOLEAN :
          StartReport(TRUE, targets, token_ok)
    \/ \E ok \in BOOLEAN : RequestPage(ok)
    \/ \E outcomes \in [1..Len(job.targets) -> BOOLEAN] : SendReports(outcomes)

PushSpec == PushInit /\ [][PushNext]_vars

\* --------------------------------------------- one handling beside builds
\* an event that is answered and one whose content is not JSON
WorkEvents ==
    {PlainEvent,
     [PlainEvent EXCEPT !.content = [kind |-> "malformed", text |-> NoText]]}

\* records whose image inputs hold the same file token more than once
WorkRecords ==
    {Record(R1, ("name" :> A_NAME) @@ ("image1" :> v1) @@ ("tupian2" :> Str(F1))) :
        v1 \in {Files(<<Attachment(F1), Attachment(F1)>>),
                Files(<<Attachment(F2), Attachment(F1)>>)}}

\* the bot process handles an event while the report job builds digests of
\* a table or a spreadsheet
WorkInit ==
    /\ DigestStart
    /\ \/ /\ config = TableOnly
          /\ \E rec \in WorkRecords :
                remote = [PlainRemote EXCEPT !.bitable = Table(<<rec>>)]
       \/ /\ config = SheetOnly
          /\ remote = [PlainRemote EXCEPT !.sheet =
                          Sheet(<<HEADER, <<A_NAME, Empty, Str(F1), Str(F1),
                                           Empty>>>>)]

WorkNext ==
    \/ /\ CanHandle(1)
       /\ \E ev \in WorkEvents, token_ok \in BOOLEAN, llm \in LlmOutcomes,
             reply_ok \in BOOLEAN :
               HandleEvent(ev, Epoch, token_ok, llm, TRUE, reply_ok)
    \/ AwaitEvent
    \/ \E outcome \in [Tokens -> Outcomes], update_ok \in BOOLEAN :
          BuildDigest(NowNoon, TRUE, TRUE, outcome, update_ok)
    \/ FailingBuild

WorkSpec == WorkInit /\ [][WorkNext]_vars

\* ------------------------------------------------------------------ claims
Handled   == phase = "handled"
LastId    == last.ev.message_id
LastAge   == last.now - message_time(last.ev)
LastText  == text_content(last.ev)
LastNames == {last.ev.mentions[i].name : i \in 1..Len(last.ev.mentions)}

\* the event targets the bot: a mention is named exactly BOT_NAME, or
\* there is no mention and BOT_NAME occurs in the text
Targeted ==
    \/ BOT_NAME \in LastNames
    \/ last.ev.mentions = <<>> /\ Contains(LastText, BOT_NAME)

\* the text with every mention key removed, then trimmed
RECURSIVE WithoutKeys(_, _)
WithoutKeys(t, mentions) ==
    IF mentions = <<>> THEN t
    ELSE WithoutKeys(Replace(t, Head(mentions).key), Tail(mentions))

CleanedQuery == Strip(WithoutKeys(LastText, last.ev.mentions))

\* C1: an answer is generated (and a reply attempted) for an event only if
\* its id was not in the ledger, its age is at most MAX_MESSAGE_AGE, it is a
\* group message, it targets the bot, and its text without the mention keys,
\* trimmed, is not empty.
C1_AnswerOnlyIfAdmitted ==
    (Handled /\ last.path \in AnsweringPaths) =>
        /\ ~last.seen_before
        /\ LastAge <= MAX_MESSAGE_AGE
        /\ last.ev.chat_type = GROUP
        /\ Targeted
        /\ CleanedQuery # <<>>

\* C2: within one session at most one reply is sent successfully for any
\* event id, however often the id is delivered.
C2_AtMostOneReplyPerId == \A id \in Ids : replies_sent[id] <= 1

\* a redelivery of an id that was answered in this session is handled
C2_RedeliveryAfterReply ==
    /\ Handled
    /\ last.path = "duplicate"
    /\ replies_sent[LastId] = 1

\* C3: handling an event whose id is already in the ledger rejects it and
\* leaves the ledger as it was: the same in-memory set and no line appended
\* to the log.
C3_DuplicateLeavesLedgerUnchanged ==
    [][(phase' = "handled" /\ last'.seen_before
            /\ last'.path \notin EarlyPaths) =>
          /\ last'.path = "duplicate"
          /\ processed_messages' = processed_messages
          /\ log_file' = log_file]_vars

\* C4: an id rejected by a filter (too old, not a group chat, no mention,
\* bot not targeted, empty query) is in the ledger when the handling ends and
\* stays there for the session, appended to the log when the append works; a
\* later delivery of the id ends at the duplicate check, so no id is
\* filtered twice in a session.
C4_FilteredIdIsCommitted ==
    /\ \A id \in Ids : filtered[id] >= 1 => id \in processed_messages
    /\ \A id \in Ids : filtered[id] <= 1
    /\ (Handled /\ last.path \in FilterPaths /\ last.append_ok) =>
            log_file = Append(last.log_before, LastId)
    /\ (Handled /\ filtered[LastId] >= 1 /\ last.path \notin FilterPaths) =>
            last.path \in EarlyPaths \cup {"duplicate"}

\* an id filtered earlier in the session is delivered again
C4_RedeliveryOfFilteredId ==
    /\ Handled
    /\ last.path = "duplicate"
    /\ filtered[LastId] = 1
    /\ last.ev.chat_type = GROUP
    /\ LastAge <= MAX_MESSAGE_AGE
    /\ Targeted

\* C5: after the reply attempt of an admitted event the id is in the ledger,
\* whether the reply succeeded or failed, so no id gets a second answer
\* generation in a session.
C5_CommittedAfterReplyAttempt ==
    /\ (Handled /\ last.path \in AnsweringPaths) =>
            LastId \in processed_messages
    /\ \A id \in Ids : llm_calls[id] <= 1

\* C6: for an id not in the ledger the age check passes exactly when
\* now - message_time <= MAX_MESSAGE_AGE: ages below and at MAX_MESSAGE_AGE
\* pass, ages above it are rejected as too old.
C6_AgeCheckPassesUpToMaxAge ==
    (Handled /\ ~last.seen_before /\ last.path \notin EarlyPaths) =>
        (last.path = "too_old" <=> LastAge > MAX_MESSAGE_AGE)

\* an event exactly MAX_MESSAGE_AGE seconds old passes the age check
C6_BoundaryAgePasses ==
    /\ Handled
    /\ ~last.seen_before
    /\ LastAge = MAX_MESSAGE_AGE
    /\ last.path \in AnsweringPaths

\* the paths of an event that passed the duplicate, age and group checks and
\* whose content was parsed
PastGroupPaths ==
    {"no_mention", "not_targeted", "empty_query", "replied", "reply_failed"}

C8_QueryIsTextWithoutKeysTrimmed ==
    (Handled /\ last.path \in AnsweringPaths) => last.query = CleanedQuery

\* C9: mark_message_processed adds the id to the in-memory set also when the
\* append to the log fails (the log is then unchanged and the handler ends as
\* it would have), and in the same session every later delivery of the id
\* ends at the duplicate check.
C9_MarkedInMemoryWhenAppendFails ==
    /\ unsaved \subseteq processed_messages
    /\ (Handled /\ last.path \in MarkingPaths /\ ~last.append_ok) =>
            /\ LastId \in processed_messages
            /\ LastId \in unsaved
            /\ log_file = last.log_before
    /\ (Handled /\ last.seen_before /\ last.path \notin EarlyPaths) =>
            last.path = "duplicate"

\* an id held in memory only (its append failed) is delivered again
C9_RedeliveryOfUnsavedId ==
    /\ Handled
    /\ last.path = "duplicate"
    /\ LastId \in unsaved
    /\ LastId \notin NonEmptyLines(last.log_before)

BootComplete == boot_read = boot_lines

Built == report.status # "none"

TableSet == config.bitable_token /\ config.table_id
SheetSet == config.spreadsheet_token /\ config.sheet_id

\* the source the precedence Table > Spreadsheet > Document picks
Chosen ==
    IF TableSet THEN "bitable"
    ELSE IF SheetSet THEN "sheet"
    ELSE IF config.doc_token THEN "doc" ELSE "none"

\* C11: a build that got its token fetches the one source that precedence
\* picks and no other; when that fetch fails the build raises, without a
\* fetch of a lower source; when no source is configured the build raises
C11_OneSourceByPrecedence ==
    (Built /\ report.token_ok) =>
        /\ report.fetched = IF Chosen = "none" THEN <<>> ELSE <<Chosen>>
        /\ Chosen = "none" => report.status = "raised"
        /\ ~report.fetch_ok => report.status = "raised"
        /\ (Chosen # "none" /\ report.fetch_ok) => report.status = "returned"

\* the table fetch failed with the spreadsheet and the document configured
\* as well
C11_TableFetchFailsOthersSet ==
    /\ Built /\ report.token_ok /\ ~report.fetch_ok
    /\ TableSet /\ SheetSet /\ config.doc_token
    /\ report.status = "raised"
    /\ report.fetched = <<"bitable">>

\* the build fetched the source and parse_sheet_data came to its end
TableBuild == report.status = "returned" /\ report.fetched = <<"bitable">>
SheetBuild == report.status = "returned" /\ report.fetched = <<"sheet">>

\* the one record or row the source held, and what became of it
TheRecord == report.before.bitable.items[1]
TheRow    == report.before.sheet.values[2]
TheResult == report.parsed[1]

\* C12: every item a build returns, from spreadsheet rows as from table
\* records, has a non-empty name
C12_EveryItemHasAName ==
    (TableBuild \/ SheetBuild) =>
        \A i \in 1..Len(report.items) : Truthy(report.items[i].name)

\* the instant a time field writes: for a text in one of the layouts the
\* instant it was written from, for a number what the code reads
WrittenInstant(tv) ==
    IF tv.t = "str" /\ "form" \in DOMAIN tv THEN tv.at
    ELSE record_time_of(tv)

\* C13: a named table record is dropped for its time exactly when its time
\* field parses and now - record_time > WINDOW; so one written exactly
\* WINDOW before now is kept and one without a readable time is kept
C13_DroppedIffOlderThanWindow ==
    (TableBuild /\ Truthy(name_field(TheRecord.fields))) =>
        LET tv     == time_field(TheRecord.fields)
            parses == /\ Truthy(tv)
                      /\ WrittenInstant(tv) \notin {ValueError, NoRecordTime}
        IN  (TheResult.why = "too_old") <=>
                (parses /\ report.now - WrittenInstant(tv) > WINDOW)

\* the first alias, in the order given, whose value is present and non-empty
RECURSIVE FirstNonEmpty(_, _, _)
FirstNonEmpty(fields, aliases, i) ==
    IF i > Len(aliases) THEN Empty
    ELSE IF aliases[i] \in DOMAIN fields /\ Truthy(fields[aliases[i]])
         THEN fields[aliases[i]]
         ELSE FirstNonEmpty(fields, aliases, i + 1)

\* C14: name, description and link of a table record each resolve to the
\* first alias, localized before English, that is present and non-empty
C14_FirstNonEmptyAlias ==
    TableBuild =>
        LET fields == TheRecord.fields
            name   == FirstNonEmpty(fields, <<"mingcheng", "name">>, 1)
            desc   == FirstNonEmpty(fields, <<"miaoshu", "desc">>, 1)
            link   == FirstNonEmpty(fields,
                                    <<"lianjie", "URL", "url", "link">>, 1)
        IN  /\ TheResult.kept <=>
                  (Truthy(name) /\ ~too_old(time_field(fields), report.now))
            /\ TheResult.kept =>
                  /\ TheResult.item.name = name
                  /\ TheResult.item.desc = normalize_desc(desc)
                  /\ TheResult.item.url.url = url_of(link)

\* the description the build read and the one it returned
DescIn  == IF SheetBuild THEN TheRow[2] ELSE desc_field(TheRecord.fields)
DescOut == TheResult.item.desc

Count(s, ch) == Cardinality({i \in 1..Len(s) : s[i] = ch})

Escapes(s) == {i \in 1..Len(s) : StartsAt(s, ESCAPED_N, i)}

\* s with the escape at position i written as a line feed
Unescaped(s, i) == SubSeq(s, 1, i - 1) \o <<LF>> \o SubSeq(s, i + 2, Len(s))

\* C15: in both variants the returned description has one <br> for each
\* newline of the input, escaped or real, and no line feed; normalizing it
\* again changes nothing; and the input with any one escape written as a
\* real line feed normalizes to the same description
C15_NewlinesBecomeBreaks ==
    ((TableBuild \/ SheetBuild) /\ TheResult.kept /\ IsText(DescIn)) =>
        /\ Count(DescOut.v, "<") = Count(DescIn.v, LF)
                                     + Cardinality(Escapes(DescIn.v))
        /\ Count(DescOut.v, LF) = 0
        /\ normalize_desc(DescOut) = DescOut
        /\ \A i \in Escapes(DescIn.v) :
              normalize_desc(Str(Unescaped(DescIn.v, i))) = DescOut

\* a spreadsheet description with an escaped and a real newline came out as
\* two markers
C15_EscapedAndRealNewline ==
    /\ SheetBuild /\ TheResult.kept
    /\ DescIn = Str(ESCAPED_N \o <<LF>>)
    /\ DescOut = Str(BR \o BR)

\* ------------------------------------------------------------ image claims
\* the build got its token and its source
Fetched == Built /\ report.token_ok /\ report.fetch_ok

\* the input of image slot i of the one row or record
SlotIn(i) ==
    IF config = SheetOnly
    THEN (IF Truthy(TheRow[i + 2]) THEN TheRow[i + 2] ELSE Empty)
    ELSE IF i = 1 THEN img_input1(TheRecord.fields)
                  ELSE img_input2(TheRecord.fields)

RECURSIVE TokensOf(_, _)
TokensOf(items, i) ==
    IF i > Len(items) THEN <<>>
    ELSE (IF "file_token" \in DOMAIN items[i]
          THEN <<items[i].file_token>> ELSE <<>>) \o TokensOf(items, i + 1)

\* the image references an input holds, in order
RefsOf(v) ==
    CASE v.t = "list" -> TokensOf(v.items, 1)
      [] IsText(v) /\ Truthy(v) -> <<v.v>>
      [] OTHER -> <<>>

AllRefs == RefsOf(SlotIn(1)) \o RefsOf(SlotIn(2))

\* the reference is a key already, or its download and its upload succeed
Resolvable(ref) == is_img_key(ref) \/ report.outcome[ref] = "ok"

PictureOf(ref) == IF is_img_key(ref) THEN ref ELSE uploaded_key(ref)

RECURSIVE PicturesOf(_, _)
PicturesOf(refs, i) ==
    IF i > Len(refs) THEN <<>>
    ELSE (IF Resolvable(refs[i]) THEN <<PictureOf(refs[i])>> ELSE <<>>)
         \o PicturesOf(refs, i + 1)

\* C16: a row or record with two image references, one resolvable and one
\* whose download or upload fails, is normalized without an error into an
\* item whose pictures are the one picture of the resolvable reference
C16_FailedImageIsDropped ==
    (Fetched /\ Len(AllRefs) = 2
             /\ Cardinality({j \in 1..2 : Resolvable(AllRefs[j])}) = 1) =>
        /\ report.status = "returned"
        /\ TheResult.kept
        /\ Len(TheResult.item.pictures) = 1
        /\ TheResult.item.pictures = PicturesOf(AllRefs, 1)

\* slot 1 resolved and slot 2 failed at its upload, in a table record
C16_OneResolvedOneFailed ==
    /\ TableBuild
    /\ SlotIn(1) = Str(F1) /\ SlotIn(2) = Str(F2)
    /\ report.outcome[F1] = "ok" /\ report.outcome[F2] = "upload_fails"
    /\ TheResult.item.pictures = <<uploaded_key(F1)>>

\* an input that is not empty and has a reference that resolves
InputResolves(v) ==
    \E j \in 1..Len(RefsOf(v)) : Resolvable(RefsOf(v)[j])

\* C17, as stated: the number of pictures of an item is the number of its
\* picture field inputs that are non-empty and resolvable
C17_OnePicturePerInput ==
    (Fetched /\ report.status = "returned" /\ TheResult.kept) =>
        Len(TheResult.item.pictures) =
            Cardinality({i \in {1, 2} : InputResolves(SlotIn(i))})

\* C17: the pictures of an item are the pictures of the resolvable
\* references of its inputs, slot 1 before slot 2 and within an attachment
\* list in list order; empty inputs and failed references give no entry
C17_PicturesAreResolvableReferences ==
    (Fetched /\ report.status = "returned" /\ TheResult.kept) =>
        TheResult.item.pictures = PicturesOf(AllRefs, 1)

\* an attachment list of two resolvable tokens and a text in slot 2 gave
\* three pictures
C17_TwoAttachmentsInOneSlot ==
    /\ TableBuild
    /\ SlotIn(1) = Files(<<Attachment(F1), Attachment(F2)>>)
    /\ SlotIn(2) = Str(KEY)
    /\ TheResult.item.pictures = <<uploaded_key(F1), uploaded_key(F2), KEY>>

\* C18: a reference that starts with img_ is the picture itself, and no
\* download, upload or write-back is made for it; an empty input gives no
\* picture, no call and no error
C18_KeysPassThroughWithoutCalls ==
    Fetched =>
        /\ \A j \in 1..Len(report.calls) :
              /\ report.calls[j].op \in {"download", "upload"}
                    => ~is_img_key(report.calls[j].ref)
              /\ report.calls[j].op = "update"
                    => \E tk \in Tokens :
                          /\ report.calls[j].ref = uploaded_key(tk)
                          /\ \E k \in 1..Len(AllRefs) : AllRefs[k] = tk
        /\ (\A k \in 1..Len(AllRefs) : is_img_key(AllRefs[k])) =>
              /\ report.status = "returned"
              /\ report.calls = <<>>
              /\ report.writes = <<>>
              /\ TheResult.item.pictures = AllRefs

\* a table record with an id, a key in slot 1 and an empty slot 2
C18_KeyAndEmptyInput ==
    /\ TableBuild
    /\ Truthy(TheRecord.record_id)
    /\ SlotIn(1) = Str(KEY) /\ SlotIn(2) = Empty
    /\ TheResult.item.pictures = <<KEY>>
    /\ report.calls = <<>>

HasPicture(key) ==
    /\ report.status = "returned"
    /\ TheResult.kept
    /\ \E k \in 1..Len(TheResult.item.pictures) :
          TheResult.item.pictures[k] = key

\* C19: update_bitable_record is called only right after the download and
\* the upload of a reference both succeeded, with its key, and only for a
\* table source, a non-empty record id and a target field; whether or not
\* the write succeeds the key is among the pictures and nothing is raised
C19_WriteBackAfterSuccessOnly ==
    Fetched =>
        \A j \in 1..Len(report.calls) :
            report.calls[j].op = "update" =>
                /\ j >= 3
                /\ report.calls[j - 2].op = "download"
                /\ report.calls[j - 1].op = "upload"
                /\ report.calls[j - 2].ref = report.calls[j - 1].ref
                /\ report.outcome[report.calls[j - 1].ref] = "ok"
                /\ report.calls[j].ref = uploaded_key(report.calls[j - 1].ref)
                /\ config.bitable_token /\ config.table_id
                /\ Truthy(report.calls[j].record_id)
                /\ report.calls[j].record_id = TheRecord.record_id
                /\ report.calls[j].field_name # ""
                /\ HasPicture(report.calls[j].ref)

\* a write-back was made and failed: the key is a picture all the same and
\* the table is as it was
C19_FailedWriteBackKeepsKey ==
    /\ TableBuild
    /\ ~report.update_ok
    /\ \E j \in 1..Len(report.calls) : report.calls[j].op = "update"
    /\ report.writes = <<>>
    /\ remote = report.before
    /\ SlotIn(1) = Str(F1)
    /\ HasPicture(uploaded_key(F1))

\* C20: once a build has resolved slot i of the record from its attachment
\* field and written every resolved key back, each later build of the table
\* gives the same pictures for slot i and makes no call for it
C20_LaterBuildsUseWrittenKeys ==
    \A i \in {1, 2} :
        (Fetched /\ report.cached[i].set) =>
            /\ report.status = "returned"
            /\ TheResult.kept
            /\ TheResult.slots[i].keys = report.cached[i].keys
            /\ TheResult.slots[i].calls = <<>>

\* ------------------------------------------------------------ link of a record
\* the four URL variants of an item all hold u
AllVariants(url, u) ==
    /\ url.pc_url = u
    /\ url.android_url = u
    /\ url.ios_url = u
    /\ url.url = u

TheLinkField == url_field_of(TheRecord.fields)

KeptRecord == TableBuild /\ TheResult.kept

\* C23 as stated: the link of a record with a rich-link object is the
\* object's url, and every URL variant is empty when the object's display
\* text is the placeholder
C23_PlaceholderTextMeansNoLink ==
    (KeptRecord /\ TheLinkField.t = "dict") =>
        AllVariants(TheResult.item.url,
                    IF TheLinkField.text = PLACEHOLDER
                    THEN <<>> ELSE TheLinkField.url)

\* C23: the link of a record with a rich-link object is the object's url
\* whatever its display text; a link field that is a text equal to the
\* placeholder gives an item whose URL variants are all empty
C23_LinkOfRichLinkAndPlaceholderText ==
    KeptRecord =>
        /\ TheLinkField.t = "dict" =>
              AllVariants(TheResult.item.url, TheLinkField.url)
        /\ TheLinkField = Str(PLACEHOLDER) =>
              AllVariants(TheResult.item.url, <<>>)

\* a kept record whose rich link shows the placeholder and keeps its url
C23_RichLinkShowingPlaceholder ==
    /\ KeptRecord
    /\ TheLinkField.t = "dict"
    /\ TheLinkField.text = PLACEHOLDER
    /\ TheResult.item.url.url = TheLinkField.url
    /\ TheLinkField.url # <<>>

\* ------------------------------------------------------- malformed records
\* a record the normalizer can read: a text description and list items
\* whose file_token is a str
WellFormed(record) ==
    /\ LET desc == desc_field(record.fields)
       IN  ~Truthy(desc) \/ IsText(desc)
    /\ ~pictures_raise(<<img_input1(record.fields), img_input2(record.fields)>>)

TheRecords == report.before.bitable.items

\* C25: a record with a description or a file_token that is not a str never
\* makes the normalization raise, and every other named record of the same
\* fetch still becomes an item
C25_MalformedRecordNeverRaises ==
    (Fetched /\ report.fetched = <<"bitable">>) =>
        /\ report.status = "returned"
        /\ \A i \in 1..Len(TheRecords) :
              (/\ WellFormed(TheRecords[i])
               /\ Truthy(name_field(TheRecords[i].fields))
               /\ ~too_old(time_field(TheRecords[i].fields), report.now))
                  => \E j \in 1..Len(report.items) :
                        report.items[j].name = name_field(TheRecords[i].fields)

\* ------------------------------------------------------ errors in a handling
\* the paths on which a collaborator or the content fails
ErrorPaths == {"token_error", "content_error", "llm_raised", "reply_failed"}

\* C21: an error while one event is handled (the token request, a malformed
\* content, answer generation, the reply) is caught in the handler and
\* logged, and the handler returns, so that the client goes on to the next
\* event
C21_ErrorsAreCaughtAndLogged ==
    /\ phase # "crashed"
    /\ last.path \in ErrorPaths => (Handled /\ last.logged)
    /\ (last.path \in AnsweringPaths /\ last.llm.kind = "error") => Handled

\* an event is answered after the handling of another one failed in answer
\* generation or in the reply
C21_AnsweredAfterFailedHandling ==
    /\ Handled
    /\ deliveries = 2
    /\ LastId = "m2"
    /\ last.path = "replied"
    /\ llm_calls["m1"] = 1
    /\ replies_sent["m1"] = 0

\* --------------------------------------------------------- text of the reply
\* C28: when answer generation fails for an admitted event nothing is sent
\* to the user, and when it succeeds the reply is exactly the answer text of
\* the model service
C28_NoReplyOnFailureAnswerOnSuccess ==
    (Handled /\ last.path \in AnsweringPaths \cup {"llm_raised"}) =>
        IF last.llm.kind = "ok"
        THEN last.reply = last.llm.answer
        ELSE last.reply = NoText /\ last.path = "llm_raised"

\* ----------------------------------------------------- order of the mentions
\* the orderings of a mentions list
Orderings(mentions) ==
    {[i \in 1..Len(mentions) |-> mentions[p[i]]] :
        p \in Permutations(1..Len(mentions))}

\* C24: the cleaned query text is the same for every ordering of the
\* mentions list, also when one mention key is the beginning or a part of
\* another
C24_QueryIgnoresMentionOrder ==
    (Handled /\ last.path \in AnsweringPaths \cup {"empty_query"}) =>
        \A m \in Orderings(last.ev.mentions) :
            query_text([last.ev EXCEPT !.mentions = m]) = query_text(last.ev)

\* ------------------------------------------------------- rich-text messages
\* the texts of the text spans of one line, in order
RECURSIVE LineText(_)
LineText(line) ==
    IF line = <<>> THEN <<>>
    ELSE (IF Head(line).tag = "text" THEN Head(line).text ELSE <<>>)
         \o LineText(Tail(line))

\* the texts of the text spans of all the lines, in order
RECURSIVE SpanText(_)
SpanText(lines) ==
    IF lines = <<>> THEN <<>> ELSE LineText(Head(lines)) \o SpanText(Tail(lines))

PastGroupCheck ==
    last.path \notin EarlyPaths \cup {"duplicate", "too_old", "not_group"}

\* C27: a fresh group rich-text message that mentions the bot and has text
\* in its text spans is answered, with the concatenation of its text spans
\* as the query
C27_RichTextAnsweredWithSpanText ==
    (/\ Handled /\ PastGroupCheck
     /\ last.ev.content.kind = "post"
     /\ BOT_NAME \in LastNames
     /\ Strip(SpanText(last.ev.content.lines)) # <<>>)
        => /\ last.path \in AnsweringPaths
           /\ last.query = Strip(SpanText(last.ev.content.lines))

\* ------------------------------------------------------ weekly report push
\* the chat ids of the chats that have one, in the order of the list
ListedIds(chats) ==
    LET with_id == SelectSeq(chats, LAMBDA c : c.chat_id # "")
    IN  [i \in 1..Len(with_id) |-> with_id[i].chat_id]

\* C29: send_weekly_report_to_groups returns one result per target chat, in
\* the order of the targets; a send that fails is recorded with success
\* FALSE and the sends to the other chats are still attempted; the call
\* raises only when the token or the listing of the chats fails, and then
\* nothing was sent
C29_OneResultPerTargetInOrder ==
    /\ job.phase = "returned" =>
          /\ Len(job.results) = Len(job.targets)
          /\ \A i \in 1..Len(job.targets) :
                /\ job.results[i].chat_id = job.targets[i]
                /\ job.results[i].success = job.outcomes[i]
                /\ job.results[i].error # "" <=> ~job.outcomes[i]
          /\ job.sends = job.targets
          /\ ~job.given => job.targets = ListedIds(job.listing.all_chats)
    /\ job.phase = "raised" =>
          /\ ~job.token_ok \/ job.listing.state = "raised"
          /\ job.sends = <<>>
          /\ job.results = <<>>
    /\ (~job.token_ok \/ job.listing.state = "raised") => job.phase = "raised"

\* the chats were listed, the send to the first failed and the send to the
\* second went well
C29_SecondSentAfterFirstFailed ==
    /\ job.phase = "returned"
    /\ ~job.given
    /\ Len(job.targets) = 2
    /\ ~job.results[1].success
    /\ job.results[2].success

\* ------------------------------------------------------- listing the chats
\* the pages up to the first one that says no more
RECURSIVE PagesToEnd(_, _)
PagesToEnd(srv, i) ==
    IF ~srv[i].has_more \/ i = Len(srv) THEN <<i>>
    ELSE <<i>> \o PagesToEnd(srv, i + 1)

RECURSIVE ItemsOf(_, _)
ItemsOf(srv, pages) ==
    IF pages = <<>> THEN <<>>
    ELSE srv[Head(pages)].items \o ItemsOf(srv, Tail(pages))

\* C30: get_bot_chats asks for every page once, never for the first page
\* again after a response that says has_more without a page token, and
\* returns the items of the pages up to the first one without has_more, in
\* order
C30_EachPageRequestedOnce ==
    LET requests == job.listing.requests
    IN  /\ \A i, j \in 1..Len(requests) :
              i # j => requests[i] # requests[j]
        /\ job.listing.state = "returned" =>
              /\ requests = PagesToEnd(server, 1)
              /\ job.listing.all_chats = ItemsOf(server, requests)

\* ------------------------------------------------- handlers run together
\* the run is past the duplicate check and on its way to answer generation,
\* or between the reply and the mark
PastCheck(h) == handlers[h].pc \in {"answering", "marking"}
                /\ handlers[h].path \in AnsweringPaths

\* C26: of two runs of the handler for the same event id that are in flight
\* together at most one is past the duplicate check
C26_OneHandlerPerIdPastCheck ==
    \A h1, h2 \in HandlerIds :
        (/\ h1 # h2
         /\ handlers[h1].ev.message_id = handlers[h2].ev.message_id
         /\ PastCheck(h1))
            => ~PastCheck(h2)

\* ------------------------------------------------------------- no retries
\* how often the handler called a collaborator in its last run
CallsOf(name) == Cardinality({i \in 1..Len(last.calls) : last.calls[i] = name})

\* how often a build made a call of one kind for a file token, and how
\* often the token occurs in the image inputs of the row or record
ImageCalls(op, tk) ==
    Cardinality({i \in 1..Len(report.calls) :
                    report.calls[i].op = op /\ report.calls[i].ref = tk})

Occurrences(tk) == Cardinality({i \in 1..Len(AllRefs) : AllRefs[i] = tk})

\* C22: nothing is tried again. One run of the handler calls answer
\* generation and the reply at most once each, and a call that raises is
\* the last call of the run; one build fetches its source at most once and
\* makes at most one download and one upload for each occurrence of a file
\* token, no upload after a failed download and no image call after a
\* failed fetch
C22_NothingIsRetried ==
    /\ Handled =>
          /\ CallsOf("call_ai_model") <= 1
          /\ CallsOf("reply_message") <= 1
          /\ RaisingStep(last.path) \in {"call_ai_model", "reply_message"} =>
                last.calls[Len(last.calls)] = RaisingStep(last.path)
    /\ \A id \in Ids : llm_calls[id] <= deliveries /\ replies_sent[id] <= llm_calls[id]
    /\ Built =>
          /\ Len(report.fetched) <= 1
          /\ ~report.fetch_ok => report.calls = <<>>
          /\ \A tk \in Tokens :
                /\ ImageCalls("download", tk) <= Occurrences(tk)
                /\ ImageCalls("upload", tk) <= Occurrences(tk)
                /\ report.outcome[tk] = "download_fails" =>
                      ImageCalls("upload", tk) = 0

\* the reply of a handling failed, and a build met a download that failed
\* for a token that occurs twice
C22_FailedReplyAndFailedDownloads ==
    /\ Handled
    /\ last.path = "reply_failed"
    /\ Built
    /\ \E tk \in Tokens :
          /\ Occurrences(tk) >= 2
          /\ report.outcome[tk] = "download_fails"
          /\ ImageCalls("download", tk) = Occurrences(tk)

====
